---- MODULE Spec2Model ----
(***************************************************************************)
(* Model of the A/B experiment scripts ab_sim.py and bayesian.py.          *)
(*                                                                         *)
(* Each script is one top-to-bottom run: planning, the optional AA         *)
(* self-check, the days_run slider, the simulation of the subjects, the    *)
(* aggregation, the frequentist (and, in bayesian.py, Bayesian) analysis,  *)
(* the power computation and the audit.  A run stops at the first uncaught *)
(* exception.                                                              *)
(*                                                                         *)
(* Numbers.  Python floats are modelled in fixed point: a probability or a *)
(* power is an integer number of thousandths (0.8 is 800, 0.05 is 50).     *)
(* Strings that are hashed are sequences of byte values, so that the       *)
(* f-string concatenation and the MD5 digest are computed, not assumed.    *)
(***************************************************************************)
EXTENDS Integers, Sequences, FiniteSets, TLC

(***************************************************************************)
(* 32-bit words are pairs <<hi, lo>> of 16-bit halves.                     *)
(***************************************************************************)
Half == 65536

RECURSIVE And16(_, _)
And16(a, b) ==
    IF a = 0 \/ b = 0 THEN 0
    ELSE ((a % 2) * (b % 2)) + (2 * And16(a \div 2, b \div 2))

Or16(a, b) == a + b - And16(a, b)

Xor16(a, b) == a + b - 2 * And16(a, b)

Not16(a) == (Half - 1) - a

WAnd(x, y) == <<And16(x[1], y[1]), And16(x[2], y[2])>>

WOr(x, y) == <<Or16(x[1], y[1]), Or16(x[2], y[2])>>

WXor(x, y) == <<Xor16(x[1], y[1]), Xor16(x[2], y[2])>>

WNot(x) == <<Not16(x[1]), Not16(x[2])>>

\* Addition modulo 2^32.
WAdd(x, y) ==
    LET lo == x[2] + y[2]
        hi == x[1] + y[1] + (lo \div Half)
    IN  <<hi % Half, lo % Half>>

RECURSIVE Pow2(_)
Pow2(n) == IF n = 0 THEN 1 ELSE 2 * Pow2(n - 1)

\* Rotation to the left by s bits, 0 <= s < 32.
WRotl(x, s) ==
    LET y == IF s >= 16 THEN <<x[2], x[1]>> ELSE x
        r == s % 16
        up == Pow2(r)
        down == Pow2(16 - r)
    IN  << ((y[1] * up) % Half) + (y[2] \div down),
           ((y[2] * up) % Half) + (y[1] \div down) >>

\* floor(abs(sin(i + 1)) * 2^32), i = 0..63
Md5K ==
    << <<55146, 42104>>, <<59591, 46934>>, <<9248, 28891>>, <<49597, 52974>>,
       <<62844, 4015>>, <<18311, 50730>>, <<43056, 17939>>, <<64838, 38145>>,
       <<27008, 39128>>, <<35652, 63407>>, <<65535, 23473>>, <<35164, 55230>>,
       <<27536, 4386>>, <<64920, 29075>>, <<42617, 17294>>, <<18868, 2081>>,
       <<63006, 9570>>, <<49216, 45888>>, <<9822, 23121>>, <<59830, 51114>>,
       <<54831, 4189>>, <<580, 5203>>, <<55457, 59009>>, <<59347, 64456>>,
       <<8673, 52710>>, <<49975, 2006>>, <<62677, 3463>>, <<17754, 5357>>,
       <<43491, 59653>>, <<64751, 41976>>, <<26479, 729>>, <<36138, 19594>>,
       <<65530, 14658>>, <<34673, 63105>>, <<28061, 24866>>, <<64997, 14348>>,
       <<42174, 59972>>, <<19422, 53161>>, <<63163, 19296>>, <<48831, 48240>>,
       <<10395, 32454>>, <<60065, 10234>>, <<54511, 12421>>, <<1160, 7429>>,
       <<55764, 53305>>, <<59099, 39397>>, <<8098, 31992>>, <<50348, 22117>>,
       <<62505, 8772>>, <<17194, 65431>>, <<43924, 9127>>, <<64659, 41017>>,
       <<25947, 22979>>, <<36620, 52370>>, <<65519, 62589>>, <<34180, 24017>>,
       <<28584, 32335>>, <<65068, 59104>>, <<41729, 17172>>, <<19976, 4513>>,
       <<63315, 32386>>, <<48442, 62005>>, <<10967, 53947>>, <<60294, 54161>> >>

Md5S ==
    << 7, 12, 17, 22, 7, 12, 17, 22, 7, 12, 17, 22, 7, 12, 17, 22,
       5, 9, 14, 20, 5, 9, 14, 20, 5, 9, 14, 20, 5, 9, 14, 20,
       4, 11, 16, 23, 4, 11, 16, 23, 4, 11, 16, 23, 4, 11, 16, 23,
       6, 10, 15, 21, 6, 10, 15, 21, 6, 10, 15, 21, 6, 10, 15, 21 >>

\* 0x67452301, 0xefcdab89, 0x98badcfe, 0x10325476
Md5Init == << <<26437, 8961>>, <<61389, 43913>>, <<39098, 56574>>, <<4146, 21622>> >>

\* The padded single block of a message of at most 55 bytes: the message,
\* 0x80, zeros up to byte 56, the bit length as 64 bits, little-endian.
Md5Block(msg) ==
    LET n == Len(msg)
    IN  [k \in 1..64 |->
            IF k <= n THEN msg[k]
            ELSE IF k = n + 1 THEN 128
            ELSE IF k = 57 THEN (8 * n) % 256
            ELSE IF k = 58 THEN (8 * n) \div 256
            ELSE 0]

\* Word j (0..15) of the block, little-endian.
Md5Word(blk, j) ==
    << blk[4 * j + 3] + 256 * blk[4 * j + 4], blk[4 * j + 1] + 256 * blk[4 * j + 2] >>

\* One of the 64 operations: st is <<A, B, C, D>>, the result the next state.
Md5Step(st, blk, i) ==
    LET B == st[2]
        C == st[3]
        D == st[4]
        F == IF i < 16 THEN WOr(WAnd(B, C), WAnd(WNot(B), D))
             ELSE IF i < 32 THEN WOr(WAnd(D, B), WAnd(WNot(D), C))
             ELSE IF i < 48 THEN WXor(B, WXor(C, D))
             ELSE WXor(C, WOr(B, WNot(D)))
        g == IF i < 16 THEN i
             ELSE IF i < 32 THEN (5 * i + 1) % 16
             ELSE IF i < 48 THEN (3 * i + 5) % 16
             ELSE (7 * i) % 16
    IN  CHOOSE r \in
            { <<D, WAdd(B, WRotl(t, Md5S[i + 1])), B, C>> :
                t \in { WAdd(u, v) :
                          u \in { WAdd(f, st[1]) : f \in {F} },
                          v \in { WAdd(Md5K[i + 1], Md5Word(blk, g)) } } } : TRUE

\* Operations lo .. hi - 1 applied to st.  The range is halved and the state
\* between the halves bound (m ranges over a singleton), so that every
\* operation is computed once and the nesting stays logarithmic.
RECURSIVE Md5Rounds(_, _, _, _)
Md5Rounds(st, blk, lo, hi) ==
    IF hi = lo + 1 THEN Md5Step(st, blk, lo)
    ELSE LET mid == (lo + hi) \div 2
         IN  CHOOSE r \in { Md5Rounds(m, blk, mid, hi) :
                              m \in { Md5Rounds(st, blk, lo, mid) } } : TRUE

WBytes(x) == << x[2] % 256, x[2] \div 256, x[1] % 256, x[1] \div 256 >>

\* hashlib.md5(msg).digest(): the 16 digest bytes of a one-block message.
Md5Digest(msg) ==
    CHOOSE r \in
        { WBytes(WAdd(Md5Init[1], out[1])) \o WBytes(WAdd(Md5Init[2], out[2]))
          \o WBytes(WAdd(Md5Init[3], out[3])) \o WBytes(WAdd(Md5Init[4], out[4])) :
            out \in { Md5Rounds(Md5Init, blk, 0, 64) : blk \in { Md5Block(m) : m \in {msg} } } } : TRUE

\* int(hexdigest, 16) % m: the digest read as one big-endian number.
RECURSIVE BigMod(_, _, _, _)
BigMod(bytes, k, acc, m) ==
    IF k > Len(bytes) THEN acc
    ELSE BigMod(bytes, k + 1, (acc * 256 + bytes[k]) % m, m)


(***************************************************************************)
(* Bounds of the model.                                                    *)
(***************************************************************************)
\* Largest number of simulated subjects (dau * days_run) of a run.
MaxUsers == 6

\* Effect sizes: es is represented by the integer E with (es / c)^2 = E / EsUnit,
\* where c is the constant with power 0.8 at es * sqrt(n) = c.
MaxEs == 6

EsUnit == 6

(***************************************************************************)
(* Strings, as sequences of bytes.                                         *)
(***************************************************************************)
RECURSIVE Digits(_)
Digits(i) == IF i < 10 THEN <<48 + i>> ELSE Digits(i \div 10) \o <<48 + (i % 10)>>

\* f"user_{i}" and f"u_{i}"
UserId(i) == <<117, 115, 101, 114, 95>> \o Digits(i)

AAUserId(i) == <<117, 95>> \o Digits(i)

\* "L1", "L2"
L1 == <<76, 49>>

L2 == <<76, 50>>

\* The default salts "UI_EXP" and "ALG_EXP" of the two text inputs.
UI_EXP == <<85, 73, 95, 69, 88, 80>>

ALG_EXP == <<65, 76, 71, 95, 69, 88, 80>>

Salts == {UI_EXP, ALG_EXP}

(***************************************************************************)
(* get_group                                                               *)
(***************************************************************************)
\* Off by one at the threshold: bucket 50 goes to A.
Variant_le(bucket) == IF bucket <= 50 THEN "A" ELSE "B"

\* 'A' if bucket < 50 else 'B'
Variant(bucket) == IF bucket < 50 THEN "A" ELSE "B"

\* The f-string f"{user_id}_{layer_name}_{salt}"
InputStr(user_id, layer_name, salt) == user_id \o <<95>> \o layer_name \o <<95>> \o salt

\* int(hashlib.md5(input_str.encode()).hexdigest(), 16) % 100
HashMod100(input_str) == BigMod(Md5Digest(input_str), 1, 0, 100)

\* The digests of the strings the runs below hash, computed once.
HashedStrings ==
    { InputStr(u, l, s) :
        u \in { UserId(i) : i \in 0..(MaxUsers + 1) }
              \cup { AAUserId(i) : i \in 0..(2 * EsUnit + 2) },
        l \in {L1, L2}, s \in Salts }

HashTable == [m \in HashedStrings |-> HashMod100(m)]

Bucket(user_id, layer_name, salt) ==
    LET input_str == InputStr(user_id, layer_name, salt)
    IN  IF input_str \in HashedStrings THEN HashTable[input_str]
        ELSE HashMod100(input_str)

get_group(user_id, layer_name, salt) == Variant(Bucket(user_id, layer_name, salt))

(***************************************************************************)
(* The statistics library, in exact arithmetic.                            *)
(***************************************************************************)
Max2(a, b) == IF a >= b THEN a ELSE b

Min2(a, b) == IF a <= b THEN a ELSE b

\* Integer division in place of math.ceil(a / b).
FloorDiv(a, b) == a \div b

\* math.ceil(a / b) for a >= 0, b > 0
CeilDiv(a, b) == (a + b - 1) \div b

\* NormalIndPower().solve_power(effect_size=es, alpha=0.05, power=0.8, ratio=1.0):
\* the n per group with power 0.8, n = (c / es)^2 = EsUnit / E, kept as the
\* fraction <<numerator, denominator>>.
solve_power(es) == <<EsUnit, es>>

\* floor(1000 * power) at rho = k / 8, k = 0..32, where rho = nobs1 / n is the
\* sample size relative to the one solve_power returns for the same es:
\* power = Phi(c * sqrt(rho) - z) + Phi(-c * sqrt(rho) - z), z = 1.959964.
PowerCurve ==
    << 50, 167, 288, 403, 508, 600, 679, 745, 800, 844, 879, 907, 929, 946, 959,
       969, 977, 983, 987, 990, 993, 995, 996, 997, 998, 998, 999, 999, 999, 999,
       999, 999, 999 >>

\* nobs1 = current_n // 2 in place of current_n / 2.
power_floor_nobs(es, twice_nobs1) ==
    LET k == (8 * 2 * (twice_nobs1 \div 2) * es) \div (2 * EsUnit)
    IN  PowerCurve[Min2(k, Len(PowerCurve) - 1) + 1]

\* NormalIndPower().power(effect_size=es, nobs1=twice_nobs1 / 2, alpha=0.05, ratio=1.0)
\* in thousandths.  rho = (twice_nobs1 / 2) * es / EsUnit; the curve is read at
\* floor(8 * rho), so that power >= 0.8 exactly when rho >= 1.
power(es, twice_nobs1) ==
    LET k == (8 * twice_nobs1 * es) \div (2 * EsUnit)
    IN  PowerCurve[Min2(k, Len(PowerCurve) - 1) + 1]

\* A float that may be NaN; milli is floor(1000 * value).
Float(m) == [nan |-> FALSE, milli |-> m]

NaN == [nan |-> TRUE, milli |-> 0]

\* x < t for a float x: a comparison with NaN is False.
FloatLt(x, t) == ~x.nan /\ x.milli < t

\* proportions_ztest(count, nobs) for two samples: the pooled two-sided z-test.
\* z^2 = D^2 * N / (n1 * n2 * S * (N - S)); with S = 0 or S = N the statistic is
\* 0/0 and the p-value NaN.  The p-value is reported as a representative of
\* the interval of floor(1000 * p) that the quantiles of z^2 delimit.
proportions_ztest(count, nobs) ==
    LET S == count[1] + count[2]
        N == nobs[1] + nobs[2]
        D == count[1] * nobs[2] - count[2] * nobs[1]
        num == 10000 * D * D * N
        den == nobs[1] * nobs[2] * S * (N - S)
    IN  IF S = 0 \/ S = N THEN NaN
        ELSE IF num > 108276 * den THEN Float(0)
        ELSE IF num > 66349 * den THEN Float(5)
        ELSE IF num > 38415 * den THEN Float(30)
        ELSE IF num >= 27055 * den THEN Float(75)
        ELSE IF num >= 4549 * den THEN Float(300)
        ELSE Float(750)

(***************************************************************************)
(* run_bayesian_analysis: the four Beta parameters handed to the sampler.  *)
(***************************************************************************)
\* The failures computed as clicks - n.
run_bayesian_analysis_sign(c_clicks, c_n, t_clicks, t_n) ==
    [alpha_a |-> 1 + c_clicks, beta_a |-> 1 + c_clicks - c_n,
     alpha_b |-> 1 + t_clicks, beta_b |-> 1 + t_clicks - t_n]

run_bayesian_analysis(c_clicks, c_n, t_clicks, t_n) ==
    [alpha_a |-> 1 + c_clicks, beta_a |-> 1 + c_n - c_clicks,
     alpha_b |-> 1 + t_clicks, beta_b |-> 1 + t_n - t_clicks]

(***************************************************************************)
(* State of one run of a script.                                           *)
(***************************************************************************)
VARIABLES
    script,        \* "ab_sim" or "bayesian": the script that runs
    pc,            \* the stage the run is at
    error,         \* the uncaught exception that ended the run, or "none"
    dau,           \* st.number_input: daily volume
    salt_1,        \* st.text_input: salt of layer 1
    salt_2,        \* st.text_input: salt of layer 2
    button,        \* st.button: whether the AA self-check was requested
    defined,       \* the plan outputs bound in the script's namespace
    plan_failed,   \* the planning try block ended in its except branch
    es,            \* effect size (see MaxEs)
    req_n,
    est_days,
    aa_result,     \* "none", "pass" or "fail": what the AA self-check displayed
    days_run,
    current_n,
    user_data,     \* the rows of df_ab
    res,           \* groupby(...).agg(['count', 'sum']): group -> [count, sum]
    p_val,
    bayes,         \* the Beta parameters and prob_b_wins, once computed
    power_raised,  \* the power computation ended in its except branch
    curr_power,
    score,
    audit_log,
    verdict,
    calls          \* the calls of get_group made so far, each with its result

vars ==
    << script, pc, error, dau, salt_1, salt_2, button, defined, plan_failed, es,
       req_n, est_days, aa_result, days_run, current_n, user_data, res, p_val,
       bayes, power_raised, curr_power, score, audit_log, verdict, calls >>

Scripts == {"ab_sim", "bayesian"}

NoBayes == [alpha_a |-> 0, beta_a |-> 0, alpha_b |-> 0, beta_b |-> 0, prob_b_wins |-> 0]

\* The values of the names a run has not assigned yet.
Fresh ==
    /\ error = "none"
    /\ defined = {}
    /\ plan_failed = FALSE
    /\ es = 0
    /\ req_n = 0
    /\ est_days = 0
    /\ aa_result = "none"
    /\ days_run = 0
    /\ current_n = 0
    /\ user_data = <<>>
    /\ res = <<>>
    /\ p_val = Float(0)
    /\ bayes = NoBayes
    /\ power_raised = FALSE
    /\ curr_power = 0
    /\ score = 0
    /\ audit_log = <<>>
    /\ verdict = "none"
    /\ calls = <<>>

\* The widgets' values when the script starts.
Init ==
    /\ script \in Scripts
    /\ pc = "plan"
    /\ dau \in 0..MaxUsers
    /\ salt_1 \in Salts
    /\ salt_2 = ALG_EXP
    /\ button \in BOOLEAN
    /\ Fresh

\* An uncaught exception ends the run.
Raise(exc) ==
    /\ pc' = "crashed"
    /\ error' = exc

(***************************************************************************)
(* Stage 1: planning.  The try block assigns es, req_n and est_days in     *)
(* this order; the bare except leaves the names after the failing          *)
(* statement unassigned.                                                   *)
(***************************************************************************)
Plan ==
    /\ pc = "plan"
    /\ \E e \in 1..MaxEs :
        LET req_n_per_group == solve_power(e)
            n == CeilDiv(2 * req_n_per_group[1], req_n_per_group[2])
        IN  /\ es' = e
            /\ req_n' = n
            /\ IF dau = 0
               THEN \* req_n / dau raises ZeroDivisionError
                    /\ plan_failed' = TRUE
                    /\ defined' = {"es", "req_n"}
                    /\ est_days' = est_days
               ELSE /\ plan_failed' = FALSE
                    /\ defined' = {"es", "req_n", "est_days"}
                    /\ est_days' = CeilDiv(n, dau)
    /\ pc' = "aa"
    /\ UNCHANGED << script, error, dau, salt_1, salt_2, button, aa_result, days_run,
                    current_n, user_data, res, p_val, bayes, power_raised,
                    curr_power, score, audit_log, verdict, calls >>

\* proportion_effectsize or solve_power raises: the except branch runs with
\* req_n and est_days (and, when the first call raised, es) unassigned.
PlanRaises ==
    /\ pc = "plan"
    /\ \/ /\ defined' = {}
          /\ es' = es
       \/ /\ defined' = {"es"}
          /\ es' \in 1..MaxEs
    /\ plan_failed' = TRUE
    /\ pc' = "aa"
    /\ UNCHANGED << script, error, dau, salt_1, salt_2, button, req_n, est_days,
                    aa_result, days_run, current_n, user_data, res, p_val, bayes,
                    power_raised, curr_power, score, audit_log, verdict, calls >>

(***************************************************************************)
(* Stage 2: the AA self-check, when its button was pressed.                *)
(***************************************************************************)
AASkip ==
    /\ pc = "aa"
    /\ ~button
    /\ pc' = "slider"
    /\ UNCHANGED << script, error, dau, salt_1, salt_2, button, defined,
                    plan_failed, es, req_n, est_days, aa_result, days_run,
                    current_n, user_data, res, p_val, bayes, power_raised,
                    curr_power, score, audit_log, verdict, calls >>

\* The groups of u_0 .. u_{aa_n - 1} in layer L1.
AAGroups(aa_n) == [i \in 1..aa_n |-> get_group(AAUserId(i - 1), L1, salt_1)]

\* Each subject's click is an independent Bernoulli(base_p) draw, and only the
\* per-group sums are read, so the draws are chosen as the two sums.
AARun ==
    /\ pc = "aa"
    /\ button
    /\ IF "req_n" \notin defined
       THEN Raise("NameError") /\ aa_result' = aa_result
       ELSE LET aa_n == Min2(req_n, 5000)
                na == Cardinality({i \in 1..aa_n : AAGroups(aa_n)[i] = "A"})
                nb == aa_n - na
            IN  IF na = 0 \/ nb = 0
                THEN \* one group only: the z-test of one sample needs a value
                     Raise("ValueError") /\ aa_result' = aa_result
                ELSE \E sa \in 0..na, sb \in 0..nb :
                        LET p_aa == proportions_ztest(<<sb, sa>>, <<nb, na>>)
                        IN  /\ aa_result' = IF FloatLt(p_aa, 50) THEN "fail" ELSE "pass"
                            /\ pc' = "slider"
                            /\ error' = error
    /\ UNCHANGED << script, dau, salt_1, salt_2, button, defined, plan_failed, es,
                    req_n, est_days, days_run, current_n, user_data, res, p_val,
                    bayes, power_raised, curr_power, score, audit_log, verdict,
                    calls >>

(***************************************************************************)
(* Stage 3: the days_run slider and the simulated subjects.                *)
(***************************************************************************)
\* st.slider(..., 1, max(30, est_days + 7), min(7, est_days))
Slider ==
    /\ pc = "slider"
    /\ IF "est_days" \notin defined
       THEN /\ Raise("NameError")
            /\ UNCHANGED << days_run, current_n >>
       ELSE /\ \E d \in 1..Max2(30, est_days + 7) :
                /\ dau * d <= MaxUsers
                /\ days_run' = d
                /\ current_n' = dau * d
            /\ pc' = "simulate"
            /\ error' = error
    /\ UNCHANGED << script, dau, salt_1, salt_2, button, defined, plan_failed, es,
                    req_n, est_days, aa_result, user_data, res, p_val, bayes,
                    power_raised, curr_power, score, audit_log, verdict, calls >>

\* The row of user_{i}: its groups, and its click drawn by np.random.binomial.
Row(i, click) ==
    IF script = "ab_sim"
    THEN [ID |-> UserId(i), L1 |-> get_group(UserId(i), L1, salt_1),
          L2 |-> get_group(UserId(i), L2, salt_2), Click |-> click]
    ELSE [ID |-> UserId(i), G |-> get_group(UserId(i), L1, salt_1), Click |-> click]

Simulate ==
    /\ pc = "simulate"
    /\ \E clicks \in [1..current_n -> {0, 1}] :
          user_data' = [i \in 1..current_n |-> Row(i - 1, clicks[i])]
    /\ pc' = "aggregate"
    /\ UNCHANGED << script, error, dau, salt_1, salt_2, button, defined,
                    plan_failed, es, req_n, est_days, aa_result, days_run,
                    current_n, res, p_val, bayes, power_raised, curr_power, score,
                    audit_log, verdict, calls >>

\* The column the rows are grouped by: 'L1' in ab_sim.py, 'G' in bayesian.py.
GroupOf(row) == IF script = "ab_sim" THEN row.L1 ELSE row.G

RECURSIVE SumClicks(_, _, _)
SumClicks(rows, g, k) ==
    IF k = 0 THEN 0
    ELSE SumClicks(rows, g, k - 1) + (IF GroupOf(rows[k]) = g THEN rows[k].Click ELSE 0)

\* df_ab.groupby(...)['Click'].agg(['count', 'sum']): one row per group that occurs.
groupby_agg(rows) ==
    LET present == { GroupOf(rows[k]) : k \in 1..Len(rows) }
    IN  [g \in present |->
            [count |-> Cardinality({k \in 1..Len(rows) : GroupOf(rows[k]) = g}),
             sum |-> SumClicks(rows, g, Len(rows))]]

Aggregate ==
    /\ pc = "aggregate"
    /\ res' = groupby_agg(user_data)
    /\ pc' = "stats"
    /\ UNCHANGED << script, error, dau, salt_1, salt_2, button, defined,
                    plan_failed, es, req_n, est_days, aa_result, days_run,
                    current_n, user_data, p_val, bayes, power_raised, curr_power,
                    score, audit_log, verdict, calls >>

(***************************************************************************)
(* The frequentist test.  res.loc[g, ...] raises KeyError for a group that *)
(* has no row.                                                             *)
(***************************************************************************)
Stats ==
    /\ pc = "stats"
    /\ IF "A" \notin DOMAIN res \/ "B" \notin DOMAIN res
       THEN Raise("KeyError") /\ p_val' = p_val
       ELSE /\ p_val' = proportions_ztest(<<res["B"].sum, res["A"].sum>>,
                                          <<res["B"].count, res["A"].count>>)
            /\ pc' = IF script = "bayesian" THEN "bayes" ELSE "power"
            /\ error' = error
    /\ UNCHANGED << script, dau, salt_1, salt_2, button, defined, plan_failed, es,
                    req_n, est_days, aa_result, days_run, current_n, user_data, res,
                    bayes, power_raised, curr_power, score, audit_log, verdict,
                    calls >>

\* bayesian.py: run_bayesian_analysis(ca_s, ca_n, cb_s, cb_n); prob_b_wins is a
\* Monte-Carlo frequency, any value in [0, 1], in thousandths.
Bayes ==
    /\ pc = "bayes"
    /\ \E prob \in {950, 951} :
          bayes' = run_bayesian_analysis(res["A"].sum, res["A"].count,
                                         res["B"].sum, res["B"].count)
                   @@ [prob_b_wins |-> prob]
    /\ pc' = "power"
    /\ UNCHANGED << script, error, dau, salt_1, salt_2, button, defined,
                    plan_failed, es, req_n, est_days, aa_result, days_run,
                    current_n, user_data, res, p_val, power_raised, curr_power,
                    score, audit_log, verdict, calls >>

(***************************************************************************)
(* The power at the live sample size.                                      *)
(***************************************************************************)
\* obj.power(effect_size=es, nobs1=current_n / 2, alpha=0.05, ratio=1.0)
PowerOk ==
    /\ pc = "power"
    /\ "es" \in defined
    /\ curr_power' = power(es, current_n)
    /\ power_raised' = FALSE
    /\ pc' = "audit"
    /\ UNCHANGED << script, error, dau, salt_1, salt_2, button, defined,
                    plan_failed, es, req_n, est_days, aa_result, days_run,
                    current_n, user_data, res, p_val, bayes, score, audit_log,
                    verdict, calls >>

\* except: curr_power = 0.0
PowerRaises ==
    /\ pc = "power"
    /\ curr_power' = 0
    /\ power_raised' = TRUE
    /\ pc' = "audit"
    /\ UNCHANGED << script, error, dau, salt_1, salt_2, button, defined,
                    plan_failed, es, req_n, est_days, aa_result, days_run,
                    current_n, user_data, res, p_val, bayes, score, audit_log,
                    verdict, calls >>

(***************************************************************************)
(* The audit.                                                              *)
(***************************************************************************)
\* The boundary live_n = required_n excluded.
SampleSufficient_strict(live_n, required_n) == live_n > required_n

\* current_n >= req_n
SampleSufficient(live_n, required_n) == live_n >= required_n

\* curr_power >= 0.8
PowerSufficient(power_at_live_n) == power_at_live_n >= 800

\* p_val < 0.05
Significant(p_value) == FloatLt(p_value, 50)

\* score = 0, then += 40, += 30, += 30 for each check that passes.
AuditScore(live_n, required_n, power_at_live_n, p_value) ==
    LET s0 == 0
        s1 == IF SampleSufficient(live_n, required_n) THEN s0 + 40 ELSE s0
        s2 == IF PowerSufficient(power_at_live_n) THEN s1 + 30 ELSE s1
        s3 == IF Significant(p_value) THEN s2 + 30 ELSE s2
    IN  s3

Entry(name, ok) == [check |-> name, passed |-> ok]

\* audit_log = [], then one append per branch that appends.  In bayesian.py the
\* significance check has no else branch.
AuditLog(scr, live_n, required_n, power_at_live_n, p_value) ==
    LET l1 == <<Entry("sample", SampleSufficient(live_n, required_n))>>
        l2 == Append(l1, Entry("power", PowerSufficient(power_at_live_n)))
        l3 == IF Significant(p_value) THEN Append(l2, Entry("significance", TRUE))
              ELSE IF scr = "ab_sim" THEN Append(l2, Entry("significance", FALSE))
              ELSE l2
    IN  l3

Audit ==
    /\ pc = "audit"
    /\ IF "req_n" \notin defined
       THEN Raise("NameError") /\ UNCHANGED << score, audit_log >>
       ELSE /\ score' = AuditScore(current_n, req_n, curr_power, p_val)
            /\ audit_log' = AuditLog(script, current_n, req_n, curr_power, p_val)
            /\ pc' = "verdict"
            /\ error' = error
    /\ UNCHANGED << script, dau, salt_1, salt_2, button, defined, plan_failed, es,
                    req_n, est_days, aa_result, days_run, current_n, user_data, res,
                    p_val, bayes, power_raised, curr_power, verdict, calls >>

\* The boundary score = 70 excluded from medium.
Verdict_gt(s) ==
    IF s = 100 THEN "high"
    ELSE IF s > 70 THEN "medium"
    ELSE "low"

\* if score == 100 ... elif score >= 70 ... else ...
Verdict(s) ==
    IF s = 100 THEN "high"
    ELSE IF s >= 70 THEN "medium"
    ELSE "low"

Display ==
    /\ pc = "verdict"
    /\ verdict' = Verdict(score)
    /\ pc' = "done"
    /\ UNCHANGED << script, error, dau, salt_1, salt_2, button, defined,
                    plan_failed, es, req_n, est_days, aa_result, days_run,
                    current_n, user_data, res, p_val, bayes, power_raised,
                    curr_power, score, audit_log, calls >>

\* Streamlit runs the script again, in a fresh namespace, when a widget changes.
Rerun ==
    /\ pc \in {"done", "crashed"}
    /\ pc' = "plan"
    /\ dau' \in 0..MaxUsers
    /\ salt_1' \in Salts
    /\ button' \in BOOLEAN
    /\ error' = "none"
    /\ defined' = {}
    /\ plan_failed' = FALSE
    /\ es' = 0
    /\ req_n' = 0
    /\ est_days' = 0
    /\ aa_result' = "none"
    /\ days_run' = 0
    /\ current_n' = 0
    /\ user_data' = <<>>
    /\ res' = <<>>
    /\ p_val' = Float(0)
    /\ bayes' = NoBayes
    /\ power_raised' = FALSE
    /\ curr_power' = 0
    /\ score' = 0
    /\ audit_log' = <<>>
    /\ verdict' = "none"
    /\ UNCHANGED << script, salt_2, calls >>

(***************************************************************************)
(* The run of a script, with the statistics library returning on the       *)
(* inputs the script hands it.                                             *)
(***************************************************************************)
Next ==
    \/ Plan
    \/ AASkip
    \/ AARun
    \/ Slider
    \/ Simulate
    \/ Aggregate
    \/ Stats
    \/ Bayes
    \/ PowerOk
    \/ Audit
    \/ Display
    \/ Rerun

Spec == Init /\ [][Next]_vars

(***************************************************************************)
(* The same run, with the library calls inside the two try blocks also     *)
(* allowed to raise, which is what their except branches are there for.    *)
(***************************************************************************)
NextFault ==
    \/ Next
    \/ PlanRaises
    \/ PowerRaises

SpecFault == Init /\ [][NextFault]_vars

(***************************************************************************)
(* The audit and the verdict as functions of their four inputs.            *)
(***************************************************************************)
PowerInputs == {0, 50, 799, 800, 801, 1000}

PValueInputs == {NaN} \cup { Float(m) : m \in {0, 40, 49, 50, 51, 1000} }

InitAudit ==
    /\ script \in Scripts
    /\ pc = "audit"
    /\ error = "none"
    /\ dau = 1
    /\ salt_1 = UI_EXP
    /\ salt_2 = ALG_EXP
    /\ button = FALSE
    /\ defined = {"es", "req_n", "est_days"}
    /\ plan_failed = FALSE
    /\ es = 1
    /\ req_n \in 1..MaxUsers
    /\ est_days = req_n
    /\ aa_result = "none"
    /\ current_n \in 1..MaxUsers
    /\ days_run = current_n
    /\ user_data = <<>>
    /\ res = <<>>
    /\ p_val \in PValueInputs
    /\ bayes = NoBayes
    /\ power_raised = FALSE
    /\ curr_power \in PowerInputs
    /\ score = 0
    /\ audit_log = <<>>
    /\ verdict = "none"
    /\ calls = <<>>

NextAudit ==
    \/ Audit
    \/ Display

SpecAudit == InitAudit /\ [][NextAudit]_vars

(***************************************************************************)
(* get_group called in any order with any triples.                         *)
(***************************************************************************)
\* Subjects user_0 .. user_{MaxSubject}, and the calls of one behaviour.
MaxSubject == 2

MaxCalls == 3

Assign(user_id, layer_name, salt) ==
    /\ pc = "assign"
    /\ Len(calls) < MaxCalls
    /\ calls' = Append(calls, [user_id |-> user_id, layer_name |-> layer_name,
                               salt |-> salt,
                               bucket |-> Bucket(user_id, layer_name, salt),
                               variant |-> get_group(user_id, layer_name, salt)])
    /\ UNCHANGED << script, pc, error, dau, salt_1, salt_2, button, defined,
                    plan_failed, es, req_n, est_days, aa_result, days_run,
                    current_n, user_data, res, p_val, bayes, power_raised,
                    curr_power, score, audit_log, verdict >>

InitAssign ==
    /\ script \in Scripts
    /\ pc = "assign"
    /\ dau = 1
    /\ salt_1 = UI_EXP
    /\ salt_2 = ALG_EXP
    /\ button = FALSE
    /\ error = "none"
    /\ defined = {}
    /\ plan_failed = FALSE
    /\ es = 0
    /\ req_n = 0
    /\ est_days = 0
    /\ aa_result = "none"
    /\ days_run = 0
    /\ current_n = 0
    /\ user_data = <<>>
    /\ res = <<>>
    /\ p_val = Float(0)
    /\ bayes = NoBayes
    /\ power_raised = FALSE
    /\ curr_power = 0
    /\ score = 0
    /\ audit_log = <<>>
    /\ verdict = "none"
    /\ calls = <<>>

NextAssign ==
    \E i \in 0..MaxSubject, layer_name \in {L1, L2}, salt \in Salts :
        Assign(UserId(i), layer_name, salt)

SpecAssign == InitAssign /\ [][NextAssign]_vars

(***************************************************************************)
(* Properties.                                                             *)
(***************************************************************************)
Audited == pc \in {"verdict", "done"}

SamplePasses == current_n >= req_n

PowerPasses == curr_power >= 800

PValuePasses == ~p_val.nan /\ p_val.milli < 50

\* C1: the audit score is the sum of the weights of the checks that pass
\* (sample 40, inclusive; power 30, inclusive; significance 30, strict), hence
\* one of 0, 30, 40, 60, 70, 100, is 100 exactly when all three pass and 60
\* when only the sample check fails.
C1_ScoreIsSumOfWeights ==
    Audited =>
        /\ score = (IF SamplePasses THEN 40 ELSE 0) + (IF PowerPasses THEN 30 ELSE 0)
                   + (IF PValuePasses THEN 30 ELSE 0)
        /\ score \in {0, 30, 40, 60, 70, 100}
        /\ (score = 100) <=> (SamplePasses /\ PowerPasses /\ PValuePasses)
        /\ (~SamplePasses /\ PowerPasses /\ PValuePasses) => score = 60

\* The boundary audit: live_n = required_n, power 0.8, p = 0.04 scores 100.
C1_Witness ==
    /\ pc = "done"
    /\ current_n = req_n
    /\ curr_power = 800
    /\ p_val = Float(40)
    /\ score = 100

\* C2: the verdict is decided by the score alone: 100 is high, 70..99 is
\* medium, below 70 is low; an audit whose sample check fails is low.
C2_VerdictOfScore ==
    pc = "done" =>
        /\ (score = 100) => verdict = "high"
        /\ (70 <= score /\ score < 100) => verdict = "medium"
        /\ (score < 70) => verdict = "low"
        /\ verdict \in {"high", "medium", "low"}
        /\ ~SamplePasses => verdict = "low"

\* A score of exactly 70 (sample and power pass, p = 0.05) is displayed medium.
C2_Witness ==
    /\ pc = "done"
    /\ score = 70
    /\ p_val = Float(50)
    /\ verdict = "medium"

\* C3: every audit logs exactly three entries, in the order sample, power,
\* significance, whatever the inputs.
C3_ThreeEntries ==
    Audited =>
        /\ Len(audit_log) = 3
        /\ audit_log[1].check = "sample"
        /\ audit_log[2].check = "power"
        /\ audit_log[3].check = "significance"

\* C4: a power computation that fails is reported as PlanningError, and a
\* power of 0.0 that reaches the audit was computed.
C4_PowerFailureIsDistinct ==
    /\ power_raised => error = "PlanningError"
    /\ (pc \in {"audit", "verdict", "done"} /\ curr_power = 0) => ~power_raised

\* C5: a run whose planning stage failed does not abort on a plan output
\* (req_n, est_days, es) that the failed plan left undefined: it goes on to
\* the assignment, the aggregation and the comparison.
C5_FailedPlanDoesNotStopTheRun ==
    plan_failed => ~(pc = "crashed" /\ error = "NameError")

\* Some group of the aggregate has no row.
GroupMissing == DOMAIN res # {} /\ DOMAIN res # {"A", "B"}

\* C6: with a group of zero observations the frequentist test ends in
\* InsufficientData, and no p-value is produced.
C6_ZeroGroupIsInsufficientData ==
    (GroupMissing /\ pc \notin {"stats"}) =>
        /\ pc = "crashed"
        /\ error = "InsufficientData"
        /\ p_val = Float(0)

SameTriple(c, d) ==
    /\ c.user_id = d.user_id
    /\ c.layer_name = d.layer_name
    /\ c.salt = d.salt

\* C7: get_group depends on its triple alone: calls with the same triple, at
\* any position of any sequence of calls, return the same variant; the variant
\* is A exactly for the reduced digests 0..49 and B exactly for 50..99, which
\* splits the 100 values 50/50; nothing but the returned value changes.
C7_GetGroupIsAFunctionOfItsTriple ==
    /\ \A i, j \in 1..Len(calls) :
          SameTriple(calls[i], calls[j]) => calls[i].variant = calls[j].variant
    /\ \A i \in 1..Len(calls) :
          /\ calls[i].bucket \in 0..99
          /\ (calls[i].variant = "A") <=> (calls[i].bucket \in 0..49)
          /\ (calls[i].variant = "B") <=> (calls[i].bucket \in 50..99)
          /\ calls[i].variant = get_group(calls[i].user_id, calls[i].layer_name,
                                          calls[i].salt)
    /\ Cardinality({ b \in 0..99 : Variant(b) = "A" }) = 50
    /\ Cardinality({ b \in 0..99 : Variant(b) = "B" }) = 50
    /\ pc = "assign" /\ score = 0 /\ user_data = <<>>

\* user_0 in layer L1 with salt ALG_EXP has reduced digest 50: it is asked
\* twice, with another call before, and is B both times.
C7_Witness ==
    /\ Len(calls) = 3
    /\ SameTriple(calls[2], calls[3])
    /\ ~SameTriple(calls[1], calls[2])
    /\ calls[3].bucket = 50
    /\ calls[3].variant = "B"

\* The rows of group g with click c.
RowsOf(g, c) == { k \in 1..Len(user_data) : user_data[k].G = g /\ user_data[k].Click = c }

\* C8: the Beta parameters handed to the sampler are 1 + successes and
\* 1 + failures of A for A and of B for B, all at least 1.
C8_BetaParameters ==
    (script = "bayesian" /\ pc \in {"power", "audit", "verdict", "done"}) =>
        /\ bayes.alpha_a = 1 + Cardinality(RowsOf("A", 1))
        /\ bayes.beta_a = 1 + Cardinality(RowsOf("A", 0))
        /\ bayes.alpha_b = 1 + Cardinality(RowsOf("B", 1))
        /\ bayes.beta_b = 1 + Cardinality(RowsOf("B", 0))
        /\ \A x \in {bayes.alpha_a, bayes.beta_a, bayes.alpha_b, bayes.beta_b} : x >= 1

\* Every subject of A clicked and none of B: two parameters are exactly 1.
C8_Witness ==
    /\ script = "bayesian"
    /\ pc = "done"
    /\ bayes.beta_a = 1
    /\ bayes.alpha_b = 1
    /\ bayes.alpha_a > 2
    /\ bayes.beta_b > 2

\* C9: for dau > 0, est_days is the least d with d * dau >= req_n, and the
\* sample check passes exactly when days_run >= est_days.
C9_EstDaysIsCeiling ==
    /\ ("est_days" \in defined) =>
          /\ dau > 0 /\ req_n >= 1
          /\ est_days * dau >= req_n
          /\ (est_days - 1) * dau < req_n
    /\ pc \in {"simulate", "aggregate", "stats", "bayes", "power", "audit", "verdict",
               "done"} => current_n = dau * days_run
    /\ Audited => (audit_log[1].passed <=> days_run >= est_days)

\* req_n = 3 at 2 subjects a day: 2 days planned, and the check passes on day 2.
C9_Witness ==
    /\ pc = "done"
    /\ dau = 2
    /\ req_n = 3
    /\ est_days = 2
    /\ days_run = 2
    /\ audit_log[1].passed

\* C10: after a successful plan the sample check and the power check agree
\* (current_n >= req_n exactly when curr_power >= 0.8), so the score is one of
\* 0, 30, 70, 100 and never 40 or 60.
C10_SampleAndPowerAgree ==
    /\ (pc \in {"audit", "verdict", "done"} /\ ~plan_failed) =>
          (current_n >= req_n <=> curr_power >= 800)
    /\ (Audited /\ ~plan_failed) => score \in {0, 30, 70, 100}

\* An odd live sample that just meets the requirement: power is exactly 0.8.
C10_Witness ==
    /\ pc = "done"
    /\ current_n = req_n
    /\ current_n % 2 = 1
    /\ curr_power = 800
    /\ score = 70

====
